---- MODULE Spec2Model ----
(***************************************************************************)
(* Incremental demuxing: the ADTS elementary-stream parser                 *)
(* (media/formats/mp2t/es_parser_adts.cc) and the WebM container walker    *)
(* (packager/media/formats/webm/webm_media_parser.cc).                     *)
(***************************************************************************)
EXTENDS Integers, Sequences, FiniteSets, TLC

VARIABLES
  \* ---- EsParserAdts ----
  es_byte_queue,               \* es_byte_queue_: the unconsumed bytes
  pts_list,                    \* pts_list_: <<offset, pts>> pairs, arrival order
  last_audio_decoder_config,   \* last_audio_decoder_config_ (NoConfig when null)
  audio_timestamp_helper,      \* audio_timestamp_helper_ (NoHelper when null)
  sbr_in_mimetype,             \* sbr_in_mimetype_ (constructor argument)
  emitted,                     \* callbacks run since construction / last Reset
  parse_ret,                   \* what the last Parse call returned
  oob,                         \* some read or Pop so far was out of bounds
  calls,                       \* number of calls made so far
  \* ---- drivers of the relational checks ----
  stream,                      \* the fixed byte sequence being fed
  fed,                         \* how many bytes of stream were fed so far
  ref,                         \* a second parser instance, fed stream in one call
  script,                      \* the fixed list of Parse calls being replayed
  idx,                         \* position in script
  run,                         \* 1: first feeding, 2: feeding after Reset, 3: done
  first_run,                   \* what the first feeding emitted
  before,                      \* the arguments of the last Parse call and the
                               \* parser as it was when the call was made
  scan_buf,                    \* a buffer given to LookForSyncWord
  scan_pos,                    \* the pos it was given
  scan_result,                 \* what LookForSyncWord returned
  \* ---- WebMMediaParser ----
  state_,                      \* state_
  byte_queue_,                 \* byte_queue_: the unconsumed bytes
  cluster_parser_,             \* cluster_parser_ (NoClusterParser when null)
  unknown_segment_size_,       \* unknown_segment_size_
  init_cb_set,                 \* init_cb_ and new_sample_cb_ are bound
  init_cb_runs,                \* how often init_cb_ was run
  new_sample_cb_runs,          \* how often new_sample_cb_ was run
  dcheck_is_on,                \* the build checks DCHECKs (debug build)
  aborted,                     \* a DCHECK failed and ended the process
  last_call,                   \* what the last call was and what it returned
  wcalls                       \* number of calls made so far

adts_vars == <<es_byte_queue, pts_list, last_audio_decoder_config,
               audio_timestamp_helper, sbr_in_mimetype, emitted, parse_ret,
               oob, calls>>
driver_vars == <<stream, fed, ref, script, idx, run, first_run>>
scan_vars == <<before, scan_buf, scan_pos, scan_result>>
webm_vars == <<state_, byte_queue_, cluster_parser_, unknown_segment_size_,
               init_cb_set, init_cb_runs, new_sample_cb_runs, dcheck_is_on,
               aborted, last_call, wcalls>>

----------------------------------------------------------------------------
(* Bounds of the model.                                                    *)
MaxCalls == 3
MaxFrames == 3
MaxScript == 2
MaxWCalls == 4

----------------------------------------------------------------------------
(* Bit arithmetic on non-negative integers.                                *)
RECURSIVE BitAnd(_, _)
BitAnd(a, b) ==
  IF a = 0 \/ b = 0 THEN 0
  ELSE (a % 2) * (b % 2) + 2 * BitAnd(a \div 2, b \div 2)

RECURSIVE BitOr(_, _)
BitOr(a, b) ==
  IF a = 0 THEN b
  ELSE IF b = 0 THEN a
  ELSE (IF a % 2 = 1 \/ b % 2 = 1 THEN 1 ELSE 0) + 2 * BitOr(a \div 2, b \div 2)

RECURSIVE Pow2(_)
Pow2(k) == IF k = 0 THEN 1 ELSE 2 * Pow2(k - 1)

Shr(a, k) == a \div Pow2(k)
Shl(a, k) == a * Pow2(k)

Min(a, b) == IF a < b THEN a ELSE b

\* The element of a one-element set. Only({ e : x \in {v} }) is e with x
\* standing for the value of v.
Only(S) == CHOOSE y \in S : TRUE

----------------------------------------------------------------------------
(* Constants of the ADTS format and of the MPEG-2 timeline.                *)
kAdtsHeaderMinSize == 7
kSamplesPerAACFrame == 1024
kMpeg2Timescale == 90000
kNoTimestamp == -1000000
kAdtsFrequencyTable ==
  <<96000, 88200, 64000, 48000, 44100, 32000, 24000,
    22050, 16000, 12000, 11025, 8000, 7350>>
kAdtsFrequencyTableSize == 13
kAdtsNumChannelsTable == <<0, 1, 2, 3, 4, 5, 6, 8>>
kAdtsNumChannelsTableSize == 8

----------------------------------------------------------------------------
(* Memory reads.  raw_es is the memory starting at the pointer Peek        *)
(* returned: the raw_es_size unconsumed bytes followed by whatever lies    *)
(* behind them.  A read is in bounds when its index is in                  *)
(* [0, raw_es_size).                                                       *)
Rd(raw_es, i) == IF i >= 0 /\ i < Len(raw_es) THEN raw_es[i + 1] ELSE 0

InBounds(raw_es_size, i) == i >= 0 /\ i < raw_es_size

ExtractAdtsFrameSize(raw_es, o) ==
  BitOr(BitOr(Shr(Rd(raw_es, o + 5), 5), Shl(Rd(raw_es, o + 4), 3)),
        Shl(BitAnd(Rd(raw_es, o + 3), 3), 11))

ExtractAdtsFrequencyIndex(raw_es, o) == BitAnd(Shr(Rd(raw_es, o + 2), 2), 15)

ExtractAdtsChannelConfig(raw_es, o) ==
  BitOr(BitAnd(Shr(Rd(raw_es, o + 3), 6), 3),
        Shl(BitAnd(Rd(raw_es, o + 2), 1), 2))

\* (mutant) the layer bits are not looked at.
isAdtsSyncWordAnyLayer(raw_es, o) ==
  Rd(raw_es, o) = 255 /\ BitAnd(Rd(raw_es, o + 1), 240) = 240

isAdtsSyncWord(raw_es, o) ==
  Rd(raw_es, o) = 255 /\ BitAnd(Rd(raw_es, o + 1), 246) = 240

----------------------------------------------------------------------------
(* LookForSyncWord.                                                        *)

\* The indices isAdtsSyncWord reads at o (&& short-circuits on buf[0]).
SyncWordReads(raw_es, o) == IF Rd(raw_es, o) = 255 THEN {o, o + 1} ELSE {o}

\* (mutant) the scan stops two headers before the end of the buffer.
MaxOffsetShort(raw_es_size) == raw_es_size - 2 * kAdtsHeaderMinSize

MaxOffset(raw_es_size) == raw_es_size - kAdtsHeaderMinSize

\* (mutant) no candidate is ever corroborated.
CanCorroborateNever(remaining_size, frame_size) == FALSE

\* (mutant) the corroboration guard without room for the next sync word.
CanCorroborateNoRoom(remaining_size, frame_size) == remaining_size >= frame_size

\* "Check whether there is another frame |size| apart from the current one."
CanCorroborate(remaining_size, frame_size) == remaining_size >= frame_size + 2

FrameSizeOk(frame_size) == ~(frame_size < kAdtsHeaderMinSize)

\* One iteration of the for loop at offset: is the candidate accepted, with
\* which frame size, and which indices were read to decide it.
Candidate(raw_es, raw_es_size, offset) ==
  LET frame_size == ExtractAdtsFrameSize(raw_es, offset)
      remaining_size == raw_es_size - offset
  IN  IF ~isAdtsSyncWord(raw_es, offset)
      THEN [accept |-> FALSE, frame_size |-> 0,
            reads |-> SyncWordReads(raw_es, offset)]
      ELSE IF ~FrameSizeOk(frame_size)
      THEN [accept |-> FALSE, frame_size |-> frame_size,
            reads |-> SyncWordReads(raw_es, offset)
                      \cup {offset + 3, offset + 4, offset + 5}]
      ELSE IF CanCorroborate(remaining_size, frame_size)
      THEN [accept |-> isAdtsSyncWord(raw_es, offset + frame_size),
            frame_size |-> frame_size,
            reads |-> SyncWordReads(raw_es, offset)
                      \cup {offset + 3, offset + 4, offset + 5}
                      \cup SyncWordReads(raw_es, offset + frame_size)]
      ELSE [accept |-> TRUE, frame_size |-> frame_size,
            reads |-> SyncWordReads(raw_es, offset)
                      \cup {offset + 3, offset + 4, offset + 5}]

\* for (int offset = pos; offset < max_offset; offset++) { ... }
RECURSIVE ScanLoop(_, _, _, _, _)
ScanLoop(raw_es, raw_es_size, offset, max_offset, reads) ==
  IF ~(offset < max_offset)
  THEN [found |-> FALSE, new_pos |-> max_offset, frame_sz |-> 0,
        reads |-> reads]
  ELSE LET c == Candidate(raw_es, raw_es_size, offset)
       IN  IF c.accept
           THEN [found |-> TRUE, new_pos |-> offset,
                 frame_sz |-> c.frame_size, reads |-> reads \cup c.reads]
           ELSE ScanLoop(raw_es, raw_es_size, offset + 1, max_offset,
                         reads \cup c.reads)

LookForSyncWord(raw_es, raw_es_size, pos) ==
  LET max_offset == MaxOffset(raw_es_size)
  IN  IF pos >= max_offset
      THEN [found |-> FALSE, new_pos |-> pos, frame_sz |-> 0, reads |-> {}]
      ELSE ScanLoop(raw_es, raw_es_size, pos, max_offset, {})

----------------------------------------------------------------------------
(* AudioTimestampHelper (media/base/audio_timestamp_helper): a frame count *)
(* converted to a position on the timeline, from a settable base.          *)
NoHelper ==
  [set |-> FALSE, timescale |-> 0, rate |-> 0, base |-> kNoTimestamp,
   frame_count |-> 0]

AudioTimestampHelper(timescale, samples_per_second) ==
  [set |-> TRUE, timescale |-> timescale, rate |-> samples_per_second,
   base |-> kNoTimestamp, frame_count |-> 0]

SetBaseTimestamp(h, base_timestamp) ==
  [h EXCEPT !.base = base_timestamp, !.frame_count = 0]

ComputeTimestamp(h, frame_count) ==
  h.base + (frame_count * h.timescale) \div h.rate

GetTimestamp(h) == ComputeTimestamp(h, h.frame_count)

GetFrameDuration(h, frame_count) ==
  ComputeTimestamp(h, h.frame_count + frame_count) - GetTimestamp(h)

AddFrames(h, frame_count) ==
  [h EXCEPT !.frame_count = h.frame_count + frame_count]

----------------------------------------------------------------------------
(* The emissions: one record per callback run.                             *)
NoConfig == [set |-> FALSE, sampling_frequency |-> 0, num_channels |-> 0]

ConfigEvent(cfg) ==
  [kind |-> "config", data |-> <<>>, pts |-> 0, dts |-> 0, duration |-> 0,
   sampling_frequency |-> cfg.sampling_frequency,
   num_channels |-> cfg.num_channels]

SampleEvent(data, pts, dts, duration) ==
  [kind |-> "sample", data |-> data, pts |-> pts, dts |-> dts,
   duration |-> duration, sampling_frequency |-> 0, num_channels |-> 0]

\* kAdtsFrequencyTable[i], kAdtsNumChannelsTable[i]
TableAt(table, i) == IF i + 1 \in DOMAIN table THEN table[i + 1] ELSE 0

----------------------------------------------------------------------------
(* EsParserAdts.  A parser instance is a record p of its fields:           *)
(*   q    es_byte_queue_           pl   pts_list_                          *)
(*   cfg  last_audio_decoder_config_    th   audio_timestamp_helper_       *)
(*   sbr  sbr_in_mimetype_                                                 *)
(* with out, the callbacks it has run, and oob, the kinds of out-of-bounds *)
(* access it has made.                                                     *)
NewParser(sbr) ==
  [q |-> <<>>, pl |-> <<>>, cfg |-> NoConfig, th |-> NoHelper, sbr |-> sbr,
   out |-> <<>>, oob |-> {}]

OobTag(tag, raw_es_size, reads) ==
  IF \E i \in reads : ~InBounds(raw_es_size, i) THEN {tag} ELSE {}

FrequencyIndexOk(frequency_index) ==
  ~(frequency_index >= kAdtsFrequencyTableSize)

\* (mutant) channel configuration 0 is taken as supported.
ChannelConfigOkZero(channel_configuration) ==
  ~(channel_configuration >= kAdtsNumChannelsTableSize)

ChannelConfigOk(channel_configuration) ==
  ~(channel_configuration = 0 \/
    channel_configuration >= kAdtsNumChannelsTableSize)

ExtendedSamplesPerSecond(sbr, samples_per_second) ==
  IF sbr THEN Min(2 * samples_per_second, 48000) ELSE samples_per_second

\* The rate given to AudioStreamInfo and to AudioTimestampHelper.
ConfiguredSamplesPerSecond(sbr, samples_per_second) == samples_per_second

\* The helper after a new configuration: the timeline position is kept.
ResetTimestampHelper(th, samples_per_second) ==
  IF th.set
  THEN SetBaseTimestamp(
         AudioTimestampHelper(kMpeg2Timescale, samples_per_second),
         GetTimestamp(th))
  ELSE AudioTimestampHelper(kMpeg2Timescale, samples_per_second)

\* (mutant) the configuration is never taken as established.
HasConfigNever(p) == FALSE

\* Does the parser hold a configuration already?
HasConfig(p) == p.cfg.set

\* UpdateAudioConfiguration(adts_header) with adts_header = &raw_es[o].
UpdateAudioConfiguration(p, raw_es, raw_es_size, o) ==
  IF HasConfig(p) THEN [ok |-> TRUE, p |-> p]
  ELSE
    LET frequency_index == ExtractAdtsFrequencyIndex(raw_es, o)
        channel_configuration == ExtractAdtsChannelConfig(raw_es, o)
        samples_per_second == TableAt(kAdtsFrequencyTable, frequency_index)
        rate == ConfiguredSamplesPerSecond(p.sbr, samples_per_second)
        cfg == [set |-> TRUE, sampling_frequency |-> rate,
                num_channels |->
                  TableAt(kAdtsNumChannelsTable, channel_configuration)]
        rd1 == OobTag("config", raw_es_size, {o + 2})
        rd2 == OobTag("config", raw_es_size, {o + 2, o + 3})
        tb  == IF frequency_index + 1 \in DOMAIN kAdtsFrequencyTable /\
                  channel_configuration + 1 \in DOMAIN kAdtsNumChannelsTable
               THEN {} ELSE {"table"}
    IN  IF ~FrequencyIndexOk(frequency_index)
        THEN [ok |-> FALSE, p |-> [p EXCEPT !.oob = @ \cup rd1]]
        ELSE IF ~ChannelConfigOk(channel_configuration)
        THEN [ok |-> FALSE, p |-> [p EXCEPT !.oob = @ \cup rd2]]
        ELSE [ok |-> TRUE,
              p |-> [p EXCEPT !.cfg = cfg,
                              !.th = ResetTimestampHelper(p.th, rate),
                              !.out = Append(@, ConfigEvent(cfg)),
                              !.oob = @ \cup rd2 \cup tb]]

\* while (!pts_list_.empty() && pts_list_.front().first <= es_position)
\* (mutant) a timestamp recorded at the frame's own offset does not apply.
PtsAppliesStrict(entry, es_position) == entry[1] < es_position

PtsApplies(entry, es_position) == entry[1] <= es_position

RECURSIVE PopPts(_, _)
PopPts(p, es_position) ==
  IF p.pl # <<>> /\ PtsApplies(Head(p.pl), es_position)
  THEN PopPts([p EXCEPT !.th = SetBaseTimestamp(@, Head(p.pl)[2]),
                        !.pl = Tail(@)],
              es_position)
  ELSE p

\* MediaSample::CopyFrom(&raw_es[es_position], frame_size, ...)
CopyFrom(raw_es, es_position, frame_size) ==
  [i \in 1..frame_size |-> Rd(raw_es, es_position + i - 1)]

\* The frame at es_position is emitted and the timeline moves one frame on.
EmitFrame(p, raw_es, raw_es_size, es_position, frame_size) ==
  LET p1 == PopPts(p, es_position)
      current_pts == GetTimestamp(p1.th)
      frame_duration == GetFrameDuration(p1.th, kSamplesPerAACFrame)
  IN  [p1 EXCEPT
         !.out = Append(@, SampleEvent(
                   CopyFrom(raw_es, es_position, frame_size),
                   current_pts, current_pts, frame_duration)),
         !.th = AddFrames(@, kSamplesPerAACFrame),
         !.oob = @ \cup OobTag("copy", raw_es_size,
                   es_position .. (es_position + frame_size - 1))]

\* "Do not process the frame if this one is a partial frame."
IsPartialFrame(frame_size, remaining_size) == frame_size > remaining_size

\* The while loop of Parse from es_position: the parser afterwards, the final
\* es_position, and whether Parse goes on to DiscardEs (ok) or returned false.
RECURSIVE ParseLoop(_, _, _, _)
ParseLoop(p, raw_es, raw_es_size, es_position) ==
  Only({
    Only({
      IF ~look.found
      THEN [ok |-> TRUE, p |-> p0, es_position |-> look.new_pos]
      ELSE IF IsPartialFrame(look.frame_sz, raw_es_size - look.new_pos)
      THEN [ok |-> TRUE, p |-> p0, es_position |-> look.new_pos]
      ELSE
        Only({
          IF ~upd.ok
          THEN [ok |-> FALSE, p |-> upd.p, es_position |-> look.new_pos]
          ELSE
            Only({
              ParseLoop(p1, raw_es, raw_es_size, look.new_pos + look.frame_sz)
              : p1 \in {EmitFrame(upd.p, raw_es, raw_es_size, look.new_pos,
                                  look.frame_sz)} })
          : upd \in {UpdateAudioConfiguration(p0, raw_es, raw_es_size,
                                              look.new_pos)} })
      : p0 \in {[p EXCEPT !.oob =
                   @ \cup OobTag("sync", raw_es_size, look.reads)]} })
    : look \in {LookForSyncWord(raw_es, raw_es_size, es_position)} })

\* DiscardEs(nbytes)
ShiftPts(pl, nbytes) == [i \in 1..Len(pl) |-> <<pl[i][1] - nbytes, pl[i][2]>>]

DiscardEs(p, nbytes) ==
  IF nbytes <= 0
  THEN [p EXCEPT !.oob = @ \cup (IF nbytes < 0 THEN {"pop"} ELSE {})]
  ELSE [p EXCEPT
          !.pl = ShiftPts(@, nbytes),
          !.q = SubSeq(@, Min(nbytes, Len(@)) + 1, Len(@)),
          !.oob = @ \cup (IF nbytes > Len(p.q) THEN {"pop"} ELSE {})]

\* Parse(buf, size, pts, dts); behind is the memory behind the queue's bytes.
PushPts(p, pts) ==
  IF pts # kNoTimestamp THEN [p EXCEPT !.pl = Append(@, <<Len(p.q), pts>>)]
  ELSE p

ParseCall(p, buf, pts, behind) ==
  Only({
    Only({
      IF r.ok THEN [ret |-> TRUE, p |-> DiscardEs(r.p, r.es_position)]
      ELSE [ret |-> FALSE, p |-> r.p]
      : r \in {ParseLoop(p2, p2.q \o behind, Len(p2.q), 0)} })
    : p2 \in {[PushPts(p, pts) EXCEPT !.q = @ \o buf]} })

\* (mutant) Reset() that forgets to clear the configuration.
ResetKeepsConfig(p) ==
  [p EXCEPT !.q = <<>>, !.pl = <<>>]

\* Reset(): the queue, the pts list and the configuration are cleared; the
\* timestamp helper is not.
ResetCall(p) ==
  [p EXCEPT !.q = <<>>, !.pl = <<>>, !.cfg = NoConfig]

----------------------------------------------------------------------------
(* The inputs.                                                             *)

\* A 7-byte ADTS header declaring frame size sz, frequency index fi and
\* channel configuration cc (profile 1, MPEG-4, no CRC).
Hdr(sz, fi, cc) ==
  <<255, 241, 64 + (fi * 4) + (cc \div 4),
    ((cc % 4) * 64) + ((sz \div 2048) % 4), (sz \div 8) % 256,
    ((sz % 8) * 32) + 31, 252>>

Zeros(n) == [i \in 1..n |-> 0]

\* A complete frame of sz >= 7 bytes.
Frame(sz, fi, cc) == Hdr(sz, fi, cc) \o Zeros(sz - kAdtsHeaderMinSize)

\* Frequency index 4 is 44100 Hz, 0 is 96000 Hz, 15 is "explicit"; channel
\* configuration 0 is reserved.
Chunks ==
  { <<0>>, <<255, 246>>,
    Frame(7, 0, 1), Frame(8, 4, 2),
    Frame(8, 15, 2), Frame(8, 4, 0),
    Hdr(3, 4, 2), Hdr(12, 4, 2),
    SubSeq(Frame(8, 4, 2), 1, 4),
    SubSeq(Frame(8, 4, 2), 5, 8) }

PtsValues == {kNoTimestamp, 3000}

\* What may lie in memory behind the unconsumed bytes.
Behind == { <<0, 0>>, <<255, 240>> }

----------------------------------------------------------------------------
(* The parser instance held in the variables.                              *)
Self ==
  [q |-> es_byte_queue, pl |-> pts_list, cfg |-> last_audio_decoder_config,
   th |-> audio_timestamp_helper, sbr |-> sbr_in_mimetype, out |-> emitted,
   oob |-> oob]

Becomes(p) ==
  /\ es_byte_queue' = p.q
  /\ pts_list' = p.pl
  /\ last_audio_decoder_config' = p.cfg
  /\ audio_timestamp_helper' = p.th
  /\ sbr_in_mimetype' = p.sbr
  /\ emitted' = p.out
  /\ oob' = p.oob

InitParser ==
  /\ sbr_in_mimetype \in BOOLEAN
  /\ es_byte_queue = <<>>
  /\ pts_list = <<>>
  /\ last_audio_decoder_config = NoConfig
  /\ audio_timestamp_helper = NoHelper
  /\ emitted = <<>>
  /\ parse_ret = TRUE
  /\ oob = {}
  /\ calls = 0

\* The container walker as constructed, before any call.
NoClusterParser ==
  [set |-> FALSE, born |-> 0, in_cluster |-> FALSE, remaining |-> 0]

NoCall ==
  [call |-> "none", ret |-> TRUE, buf |-> <<>>, q_before |-> <<>>,
   state_before |-> "kWaitingForInit", hist |-> <<>>]

WebMMediaParser ==
  /\ state_ = "kWaitingForInit"
  /\ byte_queue_ = <<>>
  /\ cluster_parser_ = NoClusterParser
  /\ unknown_segment_size_ = FALSE
  /\ init_cb_set = FALSE
  /\ init_cb_runs = 0
  /\ new_sample_cb_runs = 0
  /\ aborted = FALSE
  /\ last_call = NoCall
  /\ wcalls = 0

NoWebM == WebMMediaParser /\ dcheck_is_on = FALSE

\* No Parse call recorded, no buffer scanned.
NoBefore ==
  [called |-> FALSE, buf |-> <<>>, pts |-> kNoTimestamp,
   p |-> NewParser(FALSE)]

NoScanResult ==
  [done |-> FALSE, found |-> FALSE, new_pos |-> 0, frame_sz |-> 0,
   reads |-> {}]

NoScan ==
  /\ before = NoBefore
  /\ scan_buf = <<>>
  /\ scan_pos = 0
  /\ scan_result = NoScanResult

NoDriver ==
  /\ stream = <<>>
  /\ fed = 0
  /\ ref = [done |-> FALSE, ret |-> TRUE, p |-> NewParser(FALSE)]
  /\ script = <<>>
  /\ idx = 1
  /\ run = 0
  /\ first_run = [out |-> <<>>, position |-> kNoTimestamp]

----------------------------------------------------------------------------
(* SpecAdts: one parser, any sequence of Parse, Flush and Reset calls.     *)
InitAdts == InitParser /\ NoDriver /\ NoWebM /\ NoScan

Parse(buf, pts, behind) ==
  /\ calls < MaxCalls
  /\ \E r \in {ParseCall(Self, buf, pts, behind)} :
       Becomes(r.p) /\ parse_ret' = r.ret
  /\ calls' = calls + 1
  /\ UNCHANGED <<driver_vars, webm_vars, scan_vars>>

\* Flush() has an empty body.
Flush ==
  /\ calls < MaxCalls
  /\ calls' = calls + 1
  /\ UNCHANGED <<es_byte_queue, pts_list, last_audio_decoder_config,
                 audio_timestamp_helper, sbr_in_mimetype, emitted, parse_ret,
                 oob>>
  /\ UNCHANGED <<driver_vars, webm_vars, scan_vars>>

\* Reset(); a new configuration epoch starts, with nothing emitted in it.
Reset ==
  /\ calls < MaxCalls
  /\ Becomes([ResetCall(Self) EXCEPT !.out = <<>>])
  /\ calls' = calls + 1
  /\ UNCHANGED parse_ret
  /\ UNCHANGED <<driver_vars, webm_vars, scan_vars>>

NextAdts ==
  \/ \E buf \in Chunks, pts \in PtsValues, behind \in Behind :
       Parse(buf, pts, behind)
  \/ Flush
  \/ Reset

vars == <<adts_vars, driver_vars, webm_vars, scan_vars>>

SpecAdts == InitAdts /\ [][NextAdts]_vars

----------------------------------------------------------------------------
(* SpecChunk: a fixed byte sequence, no timestamps.  The parser in the     *)
(* variables is fed it in chunks of any sizes; ref, a second instance, is  *)
(* fed it in one Parse call.                                               *)

\* stream is a list of pieces; its bytes are their concatenation.
Pieces ==
  { Frame(7, 0, 1), Frame(8, 4, 2), Frame(9, 4, 2), <<0>> }

ValidFrames ==
  { Frame(7, 0, 1), Frame(8, 4, 2),
    Frame(9, 4, 2) }

RECURSIVE Concat(_)
Concat(ss) == IF ss = <<>> THEN <<>> ELSE Head(ss) \o Concat(Tail(ss))

StreamBytes == Concat(stream)

Streams == UNION { [1..n -> Pieces] : n \in 1..MaxFrames }

InitChunk ==
  /\ InitParser
  /\ sbr_in_mimetype = FALSE
  /\ NoWebM
  /\ NoScan
  /\ stream \in Streams
  /\ fed = 0
  /\ ref = [done |-> FALSE, ret |-> TRUE, p |-> NewParser(sbr_in_mimetype)]
  /\ script = <<>>
  /\ idx = 1
  /\ run = 0
  /\ first_run = [out |-> <<>>, position |-> kNoTimestamp]

AllFed == fed = Len(StreamBytes)

\* Parse(next k bytes of the stream, kNoTimestamp, kNoTimestamp)
FeedChunk(k, behind) ==
  /\ fed + k <= Len(StreamBytes)
  /\ \E r \in {ParseCall(Self, SubSeq(StreamBytes, fed + 1, fed + k),
                          kNoTimestamp, behind)} :
       Becomes(r.p) /\ parse_ret' = r.ret
  /\ fed' = fed + k
  /\ UNCHANGED <<calls, stream, ref, script, idx, run, first_run, webm_vars, scan_vars>>

\* The second instance: Parse(the whole stream, kNoTimestamp, kNoTimestamp)
FeedWhole(behind) ==
  /\ ~ref.done
  /\ \E r \in {ParseCall(ref.p, StreamBytes, kNoTimestamp, behind)} :
       ref' = [done |-> TRUE, ret |-> r.ret, p |-> r.p]
  /\ UNCHANGED <<adts_vars, stream, fed, script, idx, run, first_run, webm_vars, scan_vars>>

NextChunk ==
  \/ \E k \in 1..(MaxFrames * 9), behind \in Behind : FeedChunk(k, behind)
  \/ \E behind \in Behind : FeedWhole(behind)

SpecChunk == InitChunk /\ [][NextChunk]_vars

----------------------------------------------------------------------------
(* SpecReset: a fixed list of Parse calls is made, Reset() is called, and  *)
(* the same list of calls is made again.                                   *)
ScriptCalls == [buf : Chunks, pts : PtsValues]

Scripts == UNION { [1..n -> ScriptCalls] : n \in 1..MaxScript }

InitReset ==
  /\ InitParser
  /\ NoWebM
  /\ NoScan
  /\ stream = <<>>
  /\ fed = 0
  /\ ref = [done |-> FALSE, ret |-> TRUE, p |-> NewParser(FALSE)]
  /\ script \in Scripts
  /\ idx = 1
  /\ run = 1
  /\ first_run = [out |-> <<>>, position |-> kNoTimestamp]

\* The next call of the list.
ReplayParse(behind) ==
  /\ run \in {1, 2}
  /\ idx <= Len(script)
  /\ \E r \in {ParseCall(Self, script[idx].buf, script[idx].pts, behind)} :
       Becomes(r.p) /\ parse_ret' = r.ret
  /\ idx' = idx + 1
  /\ calls' = calls + 1
  /\ UNCHANGED <<stream, fed, ref, script, run, first_run, webm_vars, scan_vars>>

\* Reset() after the first feeding.
ReplayReset ==
  /\ run = 1
  /\ idx > Len(script)
  /\ first_run' =
       [out |-> emitted,
        position |-> IF audio_timestamp_helper.set
                     THEN GetTimestamp(audio_timestamp_helper)
                     ELSE kNoTimestamp]
  /\ Becomes([ResetCall(Self) EXCEPT !.out = <<>>])
  /\ run' = 2
  /\ idx' = 1
  /\ calls' = calls + 1
  /\ UNCHANGED <<parse_ret, stream, fed, ref, script, webm_vars, scan_vars>>

ReplayDone ==
  /\ run = 2
  /\ idx > Len(script)
  /\ run' = 3
  /\ UNCHANGED <<adts_vars, stream, fed, ref, script, idx, first_run, webm_vars, scan_vars>>

NextReset ==
  \/ \E behind \in Behind : ReplayParse(behind)
  \/ ReplayReset
  \/ ReplayDone

SpecReset == InitReset /\ [][NextReset]_vars

----------------------------------------------------------------------------
(* SpecScan: LookForSyncWord on one buffer, from any position in it.       *)
MaxPieces == 2

\* An 8-byte frame whose second byte has a layer bit set.
BadLayer == [Frame(8, 4, 2) EXCEPT ![2] = 246]

ScanPieces ==
  { Frame(7, 0, 1), Frame(8, 4, 2), Hdr(12, 4, 2), Hdr(3, 4, 2),
    BadLayer, <<255, 246>>, <<0>> }

ScanBuffers ==
  { Concat(ps) : ps \in UNION { [1..n -> ScanPieces] : n \in 1..MaxPieces } }

InitScan ==
  /\ InitParser
  /\ sbr_in_mimetype = FALSE
  /\ NoDriver
  /\ NoWebM
  /\ before = NoBefore
  /\ scan_buf \in ScanBuffers
  /\ scan_pos = 0
  /\ scan_result = NoScanResult

\* LookForSyncWord(raw_es, raw_es_size, pos, &new_pos, &frame_sz)
Scan(pos, behind) ==
  /\ scan_pos' = pos
  /\ \E r \in {LookForSyncWord(scan_buf \o behind, Len(scan_buf), pos)} :
       scan_result' = [done |-> TRUE, found |-> r.found,
                       new_pos |-> r.new_pos, frame_sz |-> r.frame_sz,
                       reads |-> r.reads]
  /\ UNCHANGED <<adts_vars, driver_vars, webm_vars, before, scan_buf>>

NextScan ==
  \E pos \in 0..Len(scan_buf), behind \in Behind : Scan(pos, behind)

SpecScan == InitScan /\ [][NextScan]_vars

----------------------------------------------------------------------------
(* SpecCall and SpecPts: Parse and Reset calls on one parser, with the     *)
(* arguments of the last Parse call and the parser it was made on kept in  *)
(* before.  SpecCall feeds supported and unsupported headers and what is   *)
(* no frame start, without timestamps; SpecPts feeds whole and split       *)
(* frames with timestamps.                                                 *)
CallChunks ==
  { Frame(8, 4, 2), Frame(8, 15, 2), Frame(8, 4, 0),
    SubSeq(Frame(8, 4, 2), 1, 4), SubSeq(Frame(8, 4, 2), 5, 8),
    Hdr(3, 4, 2), BadLayer, <<255, 246>> }

PtsChunks ==
  { Frame(8, 4, 2), Frame(8, 4, 2) \o Frame(8, 4, 2),
    SubSeq(Frame(8, 4, 2), 1, 4), SubSeq(Frame(8, 4, 2), 5, 8),
    <<255, 246>> }

CallPts == {kNoTimestamp, 3000, 6000}

InitCall ==
  /\ InitParser
  /\ sbr_in_mimetype = FALSE
  /\ NoDriver
  /\ NoWebM
  /\ NoScan

CallParse(buf, pts, behind) ==
  /\ calls < MaxCalls
  /\ before' = [called |-> TRUE, buf |-> buf, pts |-> pts, p |-> Self]
  /\ \E r \in {ParseCall(Self, buf, pts, behind)} :
       Becomes(r.p) /\ parse_ret' = r.ret
  /\ calls' = calls + 1
  /\ UNCHANGED <<driver_vars, webm_vars, scan_buf, scan_pos, scan_result>>

CallReset ==
  /\ calls < MaxCalls
  /\ before' = NoBefore
  /\ Becomes([ResetCall(Self) EXCEPT !.out = <<>>])
  /\ calls' = calls + 1
  /\ UNCHANGED parse_ret
  /\ UNCHANGED <<driver_vars, webm_vars, scan_buf, scan_pos, scan_result>>

NextCall ==
  \/ \E buf \in CallChunks, behind \in Behind :
       CallParse(buf, kNoTimestamp, behind)
  \/ CallReset

SpecCall == InitCall /\ [][NextCall]_vars

NextPts ==
  \/ \E buf \in PtsChunks, pts \in CallPts, behind \in Behind :
       CallParse(buf, pts, behind)
  \/ CallReset

SpecPts == InitCall /\ [][NextPts]_vars

----------------------------------------------------------------------------
(* Properties of the ADTS parser.                                          *)

ConfigEvents(out) == {i \in DOMAIN out : out[i].kind = "config"}
SampleEvents(out) == {i \in DOMAIN out : out[i].kind = "sample"}

\* C1: chunk-boundary independence.  Once the whole stream was fed, the
\* parser fed in chunks has run the same callbacks, in the same order and
\* with the same sample bytes, pts and durations, as the parser fed the
\* stream in one Parse call.
C1_ChunkIndependence ==
  (AllFed /\ ref.done) => emitted = ref.p.out

\* C2: no out-of-bounds access.  Every index read by LookForSyncWord, by
\* UpdateAudioConfiguration and by the sample copy is inside
\* [0, raw_es_size), every table index is below the table size, and every
\* Pop count is between 0 and the unconsumed length.
C2_NoOutOfBounds == oob = {}

\* A frame ending exactly at the end of the buffer was accepted without
\* corroboration, copied and popped.
C2_Witness ==
  /\ calls = 1
  /\ parse_ret
  /\ Len(emitted) = 2
  /\ es_byte_queue = <<>>
  /\ oob = {}

\* C3: N back-to-back valid frames give N samples after one configuration,
\* with pts strictly increasing by each frame's duration, and leave the
\* queue empty.
IsFrameStream == \A i \in DOMAIN stream : stream[i] \in ValidFrames

C3_NFramesNSamples ==
  (AllFed /\ IsFrameStream) =>
    /\ Cardinality(SampleEvents(emitted)) = Len(stream)
    /\ Cardinality(ConfigEvents(emitted)) = 1
    /\ emitted[1].kind = "config"
    /\ \A i \in 2..Len(emitted) - 1 :
         /\ emitted[i + 1].pts > emitted[i].pts
         /\ emitted[i + 1].pts - emitted[i].pts = emitted[i].duration
    /\ \A i \in 2..Len(emitted) : emitted[i].data = stream[i - 1]
    /\ es_byte_queue = <<>>

\* C5: in a configuration epoch the configuration-ready callback runs at
\* most once, and no sample is emitted before it.
C5_ConfigOncePerEpoch ==
  /\ Cardinality(ConfigEvents(emitted)) <= 1
  /\ emitted # <<>> => emitted[1].kind = "config"

\* Two frames were emitted in one epoch, after one configuration.
C5_Witness ==
  /\ Len(emitted) >= 3
  /\ emitted[1].kind = "config"
  /\ emitted[2].kind = "sample"
  /\ emitted[3].kind = "sample"

\* C4 as stated: after Reset(), feeding the same calls again runs exactly
\* the callbacks of the first feeding, with the same bytes, pts/dts and
\* durations.
C4_ResetIdempotence == run = 3 => emitted = first_run.out

NoPtsSupplied == \A j \in DOMAIN script : script[j].pts = kNoTimestamp

\* C4 as amended: the second feeding runs the same callbacks with the same
\* configuration, sample bytes and durations; the pts/dts are the same too
\* when the first Parse call supplies a timestamp; when no call supplies one
\* they continue from the timeline position the first feeding reached,
\* because Reset() keeps the timestamp helper.
C4_ResetReplay ==
  run = 3 =>
    /\ Len(emitted) = Len(first_run.out)
    /\ \A i \in DOMAIN emitted :
         /\ emitted[i].kind = first_run.out[i].kind
         /\ emitted[i].data = first_run.out[i].data
         /\ emitted[i].duration = first_run.out[i].duration
         /\ emitted[i].sampling_frequency = first_run.out[i].sampling_frequency
         /\ emitted[i].num_channels = first_run.out[i].num_channels
         /\ emitted[i].pts = emitted[i].dts
    /\ script[1].pts # kNoTimestamp => emitted = first_run.out
    /\ NoPtsSupplied =>
         \A i \in SampleEvents(emitted) :
           emitted[i].pts =
             first_run.out[i].pts + (first_run.position - kNoTimestamp)

\* Both feedings emitted a frame with no timestamp supplied, and the second
\* one's pts differ from the first one's.
C4_Witness ==
  /\ run = 3
  /\ NoPtsSupplied
  /\ SampleEvents(emitted) # {}
  /\ Len(emitted) = Len(first_run.out)
  /\ emitted # first_run.out

\* C11: after every Parse call, every pending timestamp still in pts_list
\* has a recorded offset >= 0 relative to the start of the unconsumed bytes.
C11_PtsOffsetsNonNegative ==
  \A i \in DOMAIN pts_list : pts_list[i][1] >= 0

\* The rate of the frequency table for the header at the start of data.
TableRate(data) ==
  TableAt(kAdtsFrequencyTable, ExtractAdtsFrequencyIndex(data, 0))

\* C14: the sample rate of the configuration given to the callback, and the
\* rate the durations are computed with, is min(2 * table rate, 48000) when
\* sbr_in_mimetype is set, and the table rate when it is not.
C14_SbrRate ==
  \A i \in ConfigEvents(emitted) :
    i + 1 \in SampleEvents(emitted) =>
      LET rate == ExtendedSamplesPerSecond(sbr_in_mimetype,
                                           TableRate(emitted[i + 1].data))
      IN  /\ emitted[i].sampling_frequency = rate
          /\ emitted[i + 1].duration =
               (kSamplesPerAACFrame * kMpeg2Timescale) \div rate

\* C20: after a Parse call that returned success the queue holds at most
\* kAdtsHeaderMinSize bytes, or starts with a frame candidate whose declared
\* size exceeds the buffered bytes; its length is below the largest
\* declarable frame size.
LargestFrameSize == ExtractAdtsFrameSize(<<0, 0, 0, 255, 255, 255>>, 0)

C20_BoundedLeftover ==
  parse_ret =>
    /\ \/ Len(es_byte_queue) <= kAdtsHeaderMinSize
       \/ /\ isAdtsSyncWord(es_byte_queue, 0)
          /\ ExtractAdtsFrameSize(es_byte_queue, 0) > Len(es_byte_queue)
    /\ Len(es_byte_queue) < LargestFrameSize

\* A partial frame is left queued that is longer than a minimum header.
C20_Witness ==
  /\ calls > 0
  /\ parse_ret
  /\ Len(es_byte_queue) > kAdtsHeaderMinSize
  /\ isAdtsSyncWord(es_byte_queue, 0)

\* What the format asks of a frame start at offset o of scan_buf: a sync
\* word, a declared size of at least a header, and, where the buffer holds the
\* two bytes behind the declared size, a sync word there.
DeclaredSize(o) == ExtractAdtsFrameSize(scan_buf, o)

IsFrameStart(o) ==
  /\ isAdtsSyncWord(scan_buf, o)
  /\ DeclaredSize(o) >= kAdtsHeaderMinSize
  /\ Len(scan_buf) - o >= DeclaredSize(o) + 2 =>
       isAdtsSyncWord(scan_buf, o + DeclaredSize(o))

\* The last offset at which the buffer holds a whole header.
LastHeaderOffset == Len(scan_buf) - kAdtsHeaderMinSize

\* C17: the search covers every offset from pos up to and including
\* bufferSize - minHeaderSize, so the first frame start in that range is
\* found; when nothing is found, the resume position is not behind the first
\* offset whose header is still incomplete.
C17_ScanInclusive ==
  scan_result.done =>
    /\ \A o \in scan_pos..LastHeaderOffset :
         (IsFrameStart(o) /\ \A n \in scan_pos..(o - 1) : ~IsFrameStart(n))
           => (scan_result.found /\ scan_result.new_pos = o)
    /\ ~scan_result.found =>
         /\ scan_result.new_pos >= scan_pos
         /\ scan_result.new_pos > scan_pos =>
              scan_result.new_pos <= LastHeaderOffset + 1

\* C18: the offset LookForSyncWord returns is a frame start: a candidate with
\* room for corroboration has a sync word behind its declared size, one
\* without room is taken as it is; and no frame start lies between pos and
\* the returned position, found or not: after a rejected candidate at o the
\* search goes on at o + 1.
C18_Corroboration ==
  scan_result.done =>
    /\ scan_result.found =>
         /\ scan_result.new_pos >= scan_pos
         /\ IsFrameStart(scan_result.new_pos)
         /\ scan_result.frame_sz = DeclaredSize(scan_result.new_pos)
    /\ \A o \in scan_pos..(scan_result.new_pos - 1) : ~IsFrameStart(o)

\* A candidate was rejected for want of a sync word behind it, and a frame
\* that starts inside its span was found.
C18_Witness ==
  /\ scan_result.done
  /\ scan_result.found
  /\ \E o \in scan_pos..(scan_result.new_pos - 1) :
       /\ isAdtsSyncWord(scan_buf, o)
       /\ DeclaredSize(o) >= kAdtsHeaderMinSize
       /\ scan_result.new_pos < o + DeclaredSize(o)

\* The bytes the last Parse call had in the queue after its Push, and the
\* first frame its search found in them.
RawBefore == before.p.q \o before.buf

FirstFrame == LookForSyncWord(RawBefore, Len(RawBefore), 0)

FirstFrameComplete ==
  /\ FirstFrame.found
  /\ FirstFrame.frame_sz <= Len(RawBefore) - FirstFrame.new_pos

FirstFrameBytes ==
  SubSeq(RawBefore, FirstFrame.new_pos + 1,
         FirstFrame.new_pos + FirstFrame.frame_sz)

\* A header with a reserved or explicit frequency index, or with channel
\* configuration 0 or one beyond the table.
HeaderUnsupported(data) ==
  \/ ExtractAdtsFrequencyIndex(data, 0) >= Len(kAdtsFrequencyTable)
  \/ ExtractAdtsChannelConfig(data, 0) = 0
  \/ ExtractAdtsChannelConfig(data, 0) >= Len(kAdtsNumChannelsTable)

\* C12: a Parse call made with no configuration set, whose first complete
\* frame has an unsupported header, returns false, runs no callback, leaves
\* the configuration unset and discards no byte of the queue.
C12_UnsupportedHeaderFails ==
  (/\ before.called
   /\ ~before.p.cfg.set
   /\ FirstFrameComplete
   /\ HeaderUnsupported(FirstFrameBytes)) =>
    /\ ~parse_ret
    /\ emitted = before.p.out
    /\ last_audio_decoder_config = NoConfig
    /\ es_byte_queue = RawBefore

C12_Witness ==
  /\ before.called
  /\ ~before.p.cfg.set
  /\ FirstFrameComplete
  /\ HeaderUnsupported(FirstFrameBytes)
  /\ ~parse_ret
  /\ FirstFrame.new_pos > 0

\* C13: a Parse call made with a configuration set returns true, keeps the
\* configuration, runs no configuration-ready callback, and emits its first
\* complete frame as a sample whatever its header says.
C13_NoRevalidation ==
  (before.called /\ before.p.cfg.set) =>
    /\ parse_ret
    /\ last_audio_decoder_config = before.p.cfg
    /\ ConfigEvents(emitted) = ConfigEvents(before.p.out)
    /\ FirstFrameComplete =>
         /\ Len(emitted) > Len(before.p.out)
         /\ emitted[Len(before.p.out) + 1].kind = "sample"
         /\ emitted[Len(before.p.out) + 1].data = FirstFrameBytes

\* A frame with an unsupported header was emitted under the configuration
\* of an earlier frame.
C13_Witness ==
  /\ before.called
  /\ before.p.cfg.set
  /\ FirstFrameComplete
  /\ HeaderUnsupported(FirstFrameBytes)
  /\ parse_ret
  /\ emitted[Len(emitted)].data = FirstFrameBytes

\* The samples of the epoch before the last Parse call, and those the call
\* emitted.
IsSample(e) == e.kind = "sample"

SamplesBefore == SelectSeq(before.p.out, IsSample)

NewSamples ==
  SelectSeq(SubSeq(emitted, Len(before.p.out) + 1, Len(emitted)), IsSample)

\* What the format asks of a frame start at offset o of raw.
FrameStartAt(raw, o) ==
  /\ Rd(raw, o) = 255
  /\ BitAnd(Rd(raw, o + 1), 246) = 240
  /\ ExtractAdtsFrameSize(raw, o) >= kAdtsHeaderMinSize
  /\ Len(raw) - o >= ExtractAdtsFrameSize(raw, o) + 2 =>
       /\ Rd(raw, o + ExtractAdtsFrameSize(raw, o)) = 255
       /\ BitAnd(Rd(raw, o + ExtractAdtsFrameSize(raw, o) + 1), 246) = 240

\* C16: every sample starts with 0xFF and a second byte b with
\* (b & 0xF6) = 0xF0, and is as long as its header declares, which is at
\* least kAdtsHeaderMinSize; the first sample of a Parse call is taken at an
\* offset with no frame start before it, so what is not a frame start costs
\* the search one byte.
C16_SamplesStartAtSync ==
  /\ \A i \in SampleEvents(emitted) :
       /\ Len(emitted[i].data) >= kAdtsHeaderMinSize
       /\ emitted[i].data[1] = 255
       /\ BitAnd(emitted[i].data[2], 246) = 240
       /\ Len(emitted[i].data) = ExtractAdtsFrameSize(emitted[i].data, 0)
  /\ (before.called /\ NewSamples # <<>>) =>
       \E o \in 0..(Len(RawBefore) - Len(NewSamples[1].data)) :
         /\ SubSeq(RawBefore, o + 1, o + Len(NewSamples[1].data))
              = NewSamples[1].data
         /\ \A n \in 0..(o - 1) : ~FrameStartAt(RawBefore, n)

\* The bytes of a Parse call started with 0xFF and a second byte with a
\* layer bit set, and the frame behind them was emitted.
C16_Witness ==
  /\ before.called
  /\ NewSamples # <<>>
  /\ Len(RawBefore) >= 2
  /\ RawBefore[1] = 255
  /\ BitAnd(RawBefore[2], 246) # 240
  /\ NewSamples[1].data = SubSeq(RawBefore, 3, Len(RawBefore))

\* The offsets of the complete frames a Parse call finds in raw from pos.
RECURSIVE FrameOffsets(_, _)
FrameOffsets(raw, pos) ==
  Only({ IF ~look.found \/ look.frame_sz > Len(raw) - look.new_pos
         THEN <<>>
         ELSE <<look.new_pos>>
                \o FrameOffsets(raw, look.new_pos + look.frame_sz)
         : look \in {LookForSyncWord(raw, Len(raw), pos)} })

FramesBefore == FrameOffsets(RawBefore, 0)

\* The pending timestamps of the last Parse call once its own was recorded:
\* at the unconsumed length before the new bytes were appended.
PendingBefore ==
  IF before.pts # kNoTimestamp
  THEN Append(before.p.pl, <<Len(before.p.q), before.pts>>)
  ELSE before.p.pl

\* The pending timestamps that apply to the j-th frame of the call: those
\* recorded at or before its offset and behind the frame before it.
Applicable(j) ==
  { i \in DOMAIN PendingBefore :
      /\ PendingBefore[i][1] <= FramesBefore[j]
      /\ j > 1 => PendingBefore[i][1] > FramesBefore[j - 1] }

Latest(S) == CHOOSE i \in S : \A k \in S : k <= i

\* The pending timestamps removed by the call.
Popped ==
  { i \in DOMAIN PendingBefore :
      /\ FramesBefore # <<>>
      /\ PendingBefore[i][1] <= FramesBefore[Len(FramesBefore)] }

FrameTicks ==
  (kSamplesPerAACFrame * kMpeg2Timescale)
    \div last_audio_decoder_config.sampling_frequency

\* C19: a frame takes the latest pending timestamp recorded at or before
\* its offset as its pts and dts; a frame to which none applies takes the
\* pts of the frame before it plus the ticks of 1024 samples; the
\* timestamps that applied are removed, in arrival order, and those
\* recorded behind the last frame stay, moved down by the bytes discarded.
C19_TimestampAssignment ==
  (before.called /\ parse_ret) =>
    /\ Len(NewSamples) = Len(FramesBefore)
    /\ \A j \in DOMAIN FramesBefore :
         /\ NewSamples[j].dts = NewSamples[j].pts
         /\ NewSamples[j].duration \in {FrameTicks, FrameTicks + 1}
         /\ Applicable(j) # {} =>
              NewSamples[j].pts = PendingBefore[Latest(Applicable(j))][2]
         /\ (Applicable(j) = {} /\ Len(SamplesBefore) + j > 1) =>
              LET prev == (SamplesBefore \o NewSamples)[Len(SamplesBefore) + j - 1]
              IN  NewSamples[j].pts = prev.pts + prev.duration
    /\ Popped = 1..Cardinality(Popped)
    /\ pts_list =
         [i \in 1..(Len(PendingBefore) - Cardinality(Popped)) |->
            <<PendingBefore[i + Cardinality(Popped)][1]
                - (Len(RawBefore) - Len(es_byte_queue)),
              PendingBefore[i + Cardinality(Popped)][2]>>]

\* Two timestamps were pending at the first frame of a call, and the frame
\* took the later one.
C19_Witness ==
  /\ before.called
  /\ parse_ret
  /\ FramesBefore # <<>>
  /\ Cardinality(Applicable(1)) >= 2
  /\ PendingBefore[1][2] # PendingBefore[2][2]
  /\ NewSamples[1].pts = PendingBefore[2][2]

----------------------------------------------------------------------------
(* WebMMediaParser: the container walker.                                  *)
(*                                                                         *)
(* The element encoding is modelled with one cell per field: an element is *)
(* <<id, size>> followed by size payload cells.                            *)

\* Element ids (webm_constants.h).
kWebMIdEBMLHeader == 440786851
kWebMIdSeekHead == 290298740
kWebMIdVoid == 236
kWebMIdCRC32 == 191
kWebMIdCues == 475249515
kWebMIdChapters == 272869232
kWebMIdTags == 307544935
kWebMIdAttachments == 423732329
kWebMIdCluster == 524531317
kWebMIdSegment == 408125543
kWebMIdInfo == 357149030
kWebMIdTracks == 374648427

\* The size cell meaning "unknown size", and the size it decodes to.
kUnknownSizeCell == 255
kWebMUnknownSize == 16777215

kHeaderCells == 2

\* WebMParseElementHeader(buf, size, &id, &element_size): 0 when the header
\* is not all there, -1 when the id is not an id, else the header's length.
WebMParseElementHeader(buf) ==
  IF Len(buf) >= 1 /\ buf[1] = 0
  THEN [result |-> -1, id |-> 0, element_size |-> 0]
  ELSE IF Len(buf) < kHeaderCells
  THEN [result |-> 0, id |-> 0, element_size |-> 0]
  ELSE [result |-> kHeaderCells, id |-> buf[1],
        element_size |-> IF buf[2] = kUnknownSizeCell THEN kWebMUnknownSize
                         ELSE buf[2]]

\* A list element with the given id at the front of buf, parsed all or
\* nothing: -1 when it is another element or a payload cell read so far is
\* malformed (1), 0 when it is not all there, else its length.
ParseListElement(id, buf) ==
  LET h == WebMParseElementHeader(buf)
      have == Min(Len(buf) - kHeaderCells, h.element_size)
  IN  IF h.result <= 0 THEN h.result
      ELSE IF h.id # id \/ h.element_size = kWebMUnknownSize THEN -1
      ELSE IF \E i \in 1..have : buf[kHeaderCells + i] = 1 THEN -1
      ELSE IF have < h.element_size THEN 0
      ELSE kHeaderCells + h.element_size

\* WebMInfoParser::Parse, WebMTracksParser::Parse
InfoParserParse(buf) == ParseListElement(kWebMIdInfo, buf)
TracksParserParse(buf) == ParseListElement(kWebMIdTracks, buf)

\* WebMClusterParser::Parse(buf, size) on the cluster parser cp: the cluster
\* header first, then one block per payload cell (a sample each; a cell 1 is
\* a malformed block); cluster_ended when the declared payload was consumed.
RECURSIVE ClusterBlocks(_, _, _, _)
ClusterBlocks(buf, i, remaining, n) ==
  IF remaining = 0 \/ i > Len(buf) THEN [result |-> n, remaining |-> remaining]
  ELSE IF buf[i] = 1 THEN [result |-> -1, remaining |-> remaining]
  ELSE ClusterBlocks(buf, i + 1, remaining - 1, n + 1)

ClusterParserParse(cp, buf) ==
  LET h == WebMParseElementHeader(buf)
      start == IF cp.in_cluster THEN 0 ELSE kHeaderCells
      remaining == IF cp.in_cluster THEN cp.remaining ELSE h.element_size
      b == ClusterBlocks(buf, start + 1, remaining, 0)
  IN  IF ~cp.in_cluster /\ h.result <= 0
      THEN [result |-> h.result, samples |-> 0, cluster_ended |-> FALSE,
            cp |-> cp]
      ELSE IF ~cp.in_cluster /\
              (h.id # kWebMIdCluster \/ h.element_size = kWebMUnknownSize)
      THEN [result |-> -1, samples |-> 0, cluster_ended |-> FALSE, cp |-> cp]
      ELSE IF b.result < 0
      THEN [result |-> -1, samples |-> 0, cluster_ended |-> FALSE, cp |-> cp]
      ELSE [result |-> start + b.result, samples |-> b.result,
            cluster_ended |-> b.remaining = 0,
            cp |-> [cp EXCEPT !.in_cluster = b.remaining # 0,
                              !.remaining = b.remaining]]

\* WebMClusterParser::Flush
ClusterParserFlush(cp) == [cp EXCEPT !.in_cluster = FALSE, !.remaining = 0]

\* The walker as a record w of its fields, with the callback counts.
Walker ==
  [state |-> state_, q |-> byte_queue_, cp |-> cluster_parser_,
   unknown |-> unknown_segment_size_, inits |-> init_cb_runs,
   samples |-> new_sample_cb_runs]

SkipIds ==
  { kWebMIdEBMLHeader, kWebMIdSeekHead, kWebMIdVoid, kWebMIdCRC32,
    kWebMIdCues, kWebMIdChapters, kWebMIdTags, kWebMIdAttachments }

\* (mutant) the cluster case without its check.
ClusterAllowedAlways(w) == TRUE

\* case kWebMIdCluster: if (!cluster_parser_) return -1;
ClusterAllowed(w) == w.cp.set

\* (mutant) the element is taken as whole when only its payload would fit.
SkipIncompleteNoHeader(cur_size, result, element_size) ==
  cur_size < element_size

\* "We don't have the whole element yet."
SkipIncomplete(cur_size, result, element_size) ==
  cur_size < (result + element_size)

\* (mutant) the cluster parser is built without init_cb_ having run.
EstablishTracksNoCallback(w) ==
  [w EXCEPT !.cp = [set |-> TRUE, born |-> w.inits + 1,
                    in_cluster |-> FALSE, remaining |-> 0]]

\* After a successful info + tracks parse: init_cb_.Run(streams) and
\* cluster_parser_.reset(new WebMClusterParser(...)), every time.
EstablishTracks(w) ==
  [w EXCEPT !.inits = @ + 1,
            !.cp = [set |-> TRUE, born |-> w.inits + 1,
                    in_cluster |-> FALSE, remaining |-> 0]]

\* ParseInfoAndTracks(data, size): the result and the walker afterwards.
ParseInfoAndTracks(w, data) ==
  LET h == WebMParseElementHeader(data)
      info == InfoParserParse(data)
      tracks == TracksParserParse(SubSeq(data, info + 1, Len(data)))
  IN  IF h.result <= 0 THEN [result |-> h.result, w |-> w]
      ELSE IF h.id \in SkipIds
      THEN IF SkipIncomplete(Len(data), h.result, h.element_size)
           THEN [result |-> 0, w |-> w]
           ELSE [result |-> h.result + h.element_size, w |-> w]
      ELSE IF h.id = kWebMIdCluster
      THEN IF ~ClusterAllowed(w)
           THEN [result |-> -1, w |-> w]
           ELSE [result |-> 0, w |-> [w EXCEPT !.state = "kParsingClusters"]]
      ELSE IF h.id = kWebMIdSegment
      THEN [result |-> h.result,
            w |-> [w EXCEPT !.unknown =
                     @ \/ h.element_size = kWebMUnknownSize]]
      ELSE IF h.id # kWebMIdInfo THEN [result |-> -1, w |-> w]
      ELSE IF info <= 0 THEN [result |-> info, w |-> w]
      ELSE IF tracks <= 0 THEN [result |-> tracks, w |-> w]
      ELSE [result |-> info + tracks, w |-> EstablishTracks(w)]

\* ParseCluster(data, size)
ParseCluster(w, data) ==
  LET c == ClusterParserParse(w.cp, data)
  IN  IF ~w.cp.set THEN [result |-> -1, w |-> w]
      ELSE IF c.result < 0 THEN [result |-> c.result, w |-> w]
      ELSE [result |-> c.result,
            w |-> [w EXCEPT !.cp = c.cp,
                            !.samples = @ + c.samples,
                            !.state = IF c.cluster_ended
                                      THEN "kParsingHeaders" ELSE @]]

\* What is remembered of one Parse call for the properties: for each loop
\* iteration the unit it worked on (cur at its start), the state it started
\* in and the callbacks it ran.
NoIteration == <<>>

Iteration(w, cur, after, hist) ==
  Append(hist,
         [unit |-> cur, state |-> w.state, inits_before |-> w.inits,
          cbs |-> (after.inits - w.inits) + (after.samples - w.samples)])

\* byte_queue_.Pop(bytes_parsed)
Pop(w, bytes_parsed) ==
  [w EXCEPT !.q = SubSeq(@, Min(bytes_parsed, Len(@)) + 1, Len(@))]

\* The while loop of Parse.
RECURSIVE WalkLoop(_, _, _, _)
WalkLoop(w, cur, bytes_parsed, hist) ==
  LET r == IF w.state = "kParsingHeaders" THEN ParseInfoAndTracks(w, cur)
           ELSE ParseCluster(w, cur)
  IN  IF ~(Len(cur) > 0)
      THEN [ret |-> TRUE, w |-> Pop(w, bytes_parsed), hist |-> hist]
      ELSE IF w.state \in {"kWaitingForInit", "kError"}
      THEN [ret |-> FALSE, w |-> w, hist |-> Iteration(w, cur, w, hist)]
      ELSE IF r.result < 0
      THEN [ret |-> FALSE, w |-> [w EXCEPT !.state = "kError"],
            hist |-> Iteration(w, cur, w, hist)]
      ELSE IF r.w.state = w.state /\ r.result = 0
      THEN [ret |-> TRUE, w |-> Pop(r.w, bytes_parsed),
            hist |-> Iteration(w, cur, r.w, hist)]
      ELSE WalkLoop(r.w, SubSeq(cur, r.result + 1, Len(cur)),
                    bytes_parsed + r.result, Iteration(w, cur, r.w, hist))

\* Parse(buf, size), past its DCHECK.
WebMParse(w, buf) ==
  IF w.state = "kError" THEN [ret |-> FALSE, w |-> w, hist |-> NoIteration]
  ELSE WalkLoop([w EXCEPT !.q = @ \o buf], w.q \o buf, 0, NoIteration)

WalkerBecomes(w) ==
  /\ state_' = w.state
  /\ byte_queue_' = w.q
  /\ cluster_parser_' = w.cp
  /\ unknown_segment_size_' = w.unknown
  /\ init_cb_runs' = w.inits
  /\ new_sample_cb_runs' = w.samples

Called(call, ret, buf, hist) ==
  [call |-> call, ret |-> ret, buf |-> buf, q_before |-> byte_queue_,
   state_before |-> state_, hist |-> hist]

\* A failed DCHECK ends the process in a build that checks them.
Abort ==
  /\ aborted' = TRUE
  /\ UNCHANGED <<state_, byte_queue_, cluster_parser_, unknown_segment_size_,
                 init_cb_set, init_cb_runs, new_sample_cb_runs, last_call>>

\* Init(init_cb, new_sample_cb, decryption_key_source), both callbacks bound.
Init ==
  /\ ~aborted /\ wcalls < MaxWCalls
  /\ wcalls' = wcalls + 1
  /\ IF dcheck_is_on /\ (state_ # "kWaitingForInit" \/ init_cb_set)
     THEN Abort
     ELSE /\ state_' = "kParsingHeaders"
          /\ init_cb_set' = TRUE
          /\ last_call' = Called("Init", TRUE, <<>>, NoIteration)
          /\ UNCHANGED <<byte_queue_, cluster_parser_, unknown_segment_size_,
                         init_cb_runs, new_sample_cb_runs, aborted>>
  /\ UNCHANGED <<dcheck_is_on, adts_vars, driver_vars, scan_vars>>

\* (mutant) Flush() that also drops the cluster parser.
WFlushDropsTracks ==
  /\ ~aborted /\ wcalls < MaxWCalls
  /\ wcalls' = wcalls + 1
  /\ IF dcheck_is_on /\ state_ = "kWaitingForInit"
     THEN Abort
     ELSE /\ byte_queue_' = <<>>
          /\ cluster_parser_' = NoClusterParser
          /\ state_' = IF state_ = "kParsingClusters" THEN "kParsingHeaders"
                       ELSE state_
          /\ last_call' = Called("Flush", TRUE, <<>>, NoIteration)
          /\ UNCHANGED <<unknown_segment_size_, init_cb_set, init_cb_runs,
                         new_sample_cb_runs, aborted>>
  /\ UNCHANGED <<dcheck_is_on, adts_vars, driver_vars, scan_vars>>

WFlush ==
  /\ ~aborted /\ wcalls < MaxWCalls
  /\ wcalls' = wcalls + 1
  /\ IF dcheck_is_on /\ state_ = "kWaitingForInit"
     THEN Abort
     ELSE /\ byte_queue_' = <<>>
          /\ cluster_parser_' = IF cluster_parser_.set
                                THEN ClusterParserFlush(cluster_parser_)
                                ELSE cluster_parser_
          /\ state_' = IF state_ = "kParsingClusters" THEN "kParsingHeaders"
                       ELSE state_
          /\ last_call' = Called("Flush", TRUE, <<>>, NoIteration)
          /\ UNCHANGED <<unknown_segment_size_, init_cb_set, init_cb_runs,
                         new_sample_cb_runs, aborted>>
  /\ UNCHANGED <<dcheck_is_on, adts_vars, driver_vars, scan_vars>>

WParse(buf) ==
  /\ ~aborted /\ wcalls < MaxWCalls
  /\ wcalls' = wcalls + 1
  /\ IF dcheck_is_on /\ state_ = "kWaitingForInit"
     THEN Abort
     ELSE \E r \in {WebMParse(Walker, buf)} :
            /\ WalkerBecomes(r.w)
            /\ last_call' = Called("Parse", r.ret, buf, r.hist)
            /\ UNCHANGED <<init_cb_set, aborted>>
  /\ UNCHANGED <<dcheck_is_on, adts_vars, driver_vars, scan_vars>>

\* The buffers handed to Parse: whole elements, parts of elements, pairs.
El(id, payload) == <<id, Len(payload)>> \o payload

WChunks ==
  { <<>>, <<0>>, <<kWebMIdVoid>>, <<kWebMIdVoid, 2>>,
    <<kWebMIdSegment, kUnknownSizeCell>>,
    <<kWebMIdInfo, 1>>,
    El(kWebMIdInfo, <<0>>),
    <<kWebMIdTracks, 1>>,
    El(kWebMIdTracks, <<0>>),
    El(kWebMIdInfo, <<0>>) \o El(kWebMIdTracks, <<0>>),
    <<kWebMIdCluster, 2>>,
    El(kWebMIdCluster, <<0, 0>>),
    El(kWebMIdCluster, <<1>>),
    El(kWebMIdCRC32, <<>>) \o <<kWebMIdCues>> }

InitWebM ==
  /\ WebMMediaParser
  /\ dcheck_is_on \in BOOLEAN
  /\ InitParser
  /\ sbr_in_mimetype = FALSE
  /\ NoDriver
  /\ NoScan

NextWebM ==
  \/ Init
  \/ WFlush
  \/ \E buf \in WChunks : WParse(buf)

SpecWebM == InitWebM /\ [][NextWebM]_vars

----------------------------------------------------------------------------
(* Properties of the container walker.                                     *)

\* C6: Error is terminal.  From kError no call changes state_, no callback
\* runs, and a Parse call returns false.
C6_ErrorTerminal ==
  [][state_ = "kError" =>
       /\ state_' = "kError"
       /\ init_cb_runs' = init_cb_runs
       /\ new_sample_cb_runs' = new_sample_cb_runs
       /\ (last_call' # last_call /\ last_call'.call = "Parse")
            => ~last_call'.ret]_vars

\* C7: a Parse call made before Init returns false, leaves the byte queue as
\* it was and leaves the state kWaitingForInit.
C7_ParseBeforeInit ==
  (last_call.call = "Parse" /\ last_call.state_before = "kWaitingForInit") =>
    /\ ~last_call.ret
    /\ byte_queue_ = last_call.q_before
    /\ state_ = "kWaitingForInit"

\* An iteration of the last Parse call met a cluster id in kParsingHeaders
\* before init_cb_ had run.
EarlyCluster ==
  /\ last_call.call = "Parse"
  /\ \E i \in DOMAIN last_call.hist :
       LET it == last_call.hist[i]
       IN  /\ it.state = "kParsingHeaders"
           /\ it.inits_before = 0
           /\ WebMParseElementHeader(it.unit).result > 0
           /\ WebMParseElementHeader(it.unit).id = kWebMIdCluster

\* C8: a cluster id met in kParsingHeaders before any info/tracks pair was
\* parsed makes Parse fail and the state kError; the state is
\* kParsingClusters only with the cluster parser built and init_cb_ run.
C8_ClusterNeedsTracks ==
  /\ EarlyCluster => (~last_call.ret /\ state_ = "kError")
  /\ state_ = "kParsingClusters" => (cluster_parser_.set /\ init_cb_runs >= 1)

C8_Witness == EarlyCluster /\ state_ = "kError" /\ Len(last_call.hist) >= 2

\* C9: init_cb_ runs once in the life of the walker, and the cluster parser
\* is built once.
C9_ConfigOnce == init_cb_runs <= 1 /\ cluster_parser_.born <= 1

\* The unit needs more data: its header is not all there, or it is a skipped
\* element whose payload is not all there, or the info or the tracks parse
\* reports 0.
NeedsMoreData(unit) ==
  LET h == WebMParseElementHeader(unit)
      info == InfoParserParse(unit)
  IN  \/ h.result = 0
      \/ h.result > 0 /\ h.id \in SkipIds
           /\ Len(unit) < h.result + h.element_size
      \/ h.result > 0 /\ h.id = kWebMIdInfo /\ info = 0
      \/ h.result > 0 /\ h.id = kWebMIdInfo /\ info > 0
           /\ TracksParserParse(SubSeq(unit, info + 1, Len(unit))) = 0

\* C10: insufficient data is no error.  When an iteration in kParsingHeaders
\* works on a unit that needs more data, it is the last iteration, Parse
\* returns true, the state stays kParsingHeaders, the iteration runs no
\* callback, and the queue afterwards is that unit from its first cell.
C10_NeedMoreIsNoError ==
  last_call.call = "Parse" =>
    \A i \in DOMAIN last_call.hist :
      LET it == last_call.hist[i]
      IN  (it.state = "kParsingHeaders" /\ NeedsMoreData(it.unit)) =>
            /\ i = Len(last_call.hist)
            /\ last_call.ret
            /\ state_ = "kParsingHeaders"
            /\ it.cbs = 0
            /\ byte_queue_ = it.unit

\* The last Parse call skipped an element and then stopped at an info
\* element whose tracks element is not all there.
C10_Witness ==
  /\ last_call.call = "Parse"
  /\ last_call.ret
  /\ \E i \in DOMAIN last_call.hist :
       LET it == last_call.hist[i]
           info == InfoParserParse(it.unit)
       IN  /\ it.state = "kParsingHeaders"
           /\ WebMParseElementHeader(it.unit).id = kWebMIdInfo
           /\ info > 0
           /\ Len(it.unit) > info
           /\ TracksParserParse(SubSeq(it.unit, info + 1, Len(it.unit))) = 0
           /\ byte_queue_ = it.unit

\* A step that is a Flush call, and a step that is the Parse call right after
\* a Flush, made with the tracks established and a buffer that starts with a
\* whole cluster header.
FlushStep ==
  /\ wcalls' = wcalls + 1
  /\ ~aborted'
  /\ last_call'.call = "Flush"

ParseClusterAfterFlush ==
  /\ last_call.call = "Flush"
  /\ state_ = "kParsingHeaders"
  /\ cluster_parser_.set
  /\ wcalls' = wcalls + 1
  /\ ~aborted'
  /\ last_call'.call = "Parse"
  /\ Len(last_call'.buf) >= kHeaderCells
  /\ last_call'.buf[1] = kWebMIdCluster

\* C15: Flush() empties the byte queue; from kParsingHeaders and from
\* kParsingClusters it leaves the state kParsingHeaders, from kError it
\* leaves kError; the callbacks and the cluster parser stay, and no callback
\* runs.  A cluster id in the next Parse call is then taken without a new
\* info/tracks pair: the walker goes on in kParsingClusters.
C15_FlushKeepsTracks ==
  [][ /\ FlushStep =>
           /\ byte_queue_' = <<>>
           /\ state_ \in {"kParsingHeaders", "kParsingClusters"} =>
                state_' = "kParsingHeaders"
           /\ state_ = "kError" => state_' = "kError"
           /\ init_cb_set' = init_cb_set
           /\ cluster_parser_'.set = cluster_parser_.set
           /\ cluster_parser_'.born = cluster_parser_.born
           /\ init_cb_runs' = init_cb_runs
           /\ new_sample_cb_runs' = new_sample_cb_runs
      /\ ParseClusterAfterFlush =>
           /\ Len(last_call'.hist) >= 2
           /\ last_call'.hist[1].state = "kParsingHeaders"
           /\ last_call'.hist[2].state = "kParsingClusters"
           /\ init_cb_runs' = init_cb_runs
    ]_vars

\* Flush() was called in kParsingClusters and the cluster parser is still
\* there.
C15_Witness ==
  /\ last_call.call = "Flush"
  /\ last_call.state_before = "kParsingClusters"
  /\ state_ = "kParsingHeaders"
  /\ byte_queue_ = <<>>
  /\ cluster_parser_.set
  /\ init_cb_runs = 1

====
